---- MODULE Spec2Model ----
(***************************************************************************)
(* Model of bin/release-with-ease.js: the release orchestrator (main), the *)
(* version calculator (bumpVersionString) and the changelog editor         *)
(* (insertChangelogEntry).  Text is modelled as a sequence of characters,  *)
(* each character a one-character string; the two separator bytes of the   *)
(* git log format are the characters "RS" (\x1e) and "US" (\x1f).          *)
(***************************************************************************)
EXTENDS Integers, Sequences, FiniteSets

VARIABLES
    \* ---- main (the orchestrator) ----
    pc,             \* position of main
    dryRun,         \* parseArgs().dryRun
    apiKey,         \* process.env.OPENAI_API_KEY is set
    commits,        \* parseCommits(raw)
    response,       \* what the advisor answered
    advisorCalls,   \* number of requests sent to the advisor
    prompts,        \* number of prompts shown
    answer,         \* the raw answer typed at the prompt
    bump,           \* result.bump
    notes,          \* result.notes
    finalBump,      \* finalBump
    pkgVersion,     \* pkg.version in package.json
    newVersion,     \* newVersion
    tempExists,     \* fs.existsSync(tempEntryPath)
    tempCreated,    \* the temporary file has been written by main
    tempContent,    \* content of the temporary file
    readme,         \* content of README.md
    readme0,        \* content of README.md when the run started
    readmeWrites,   \* number of fs.writeFileSync(readmePath, ...)
    cmds,           \* the commands handed to execSync, in order, with outcome
    editorLaunches, \* number of times the editor command was run
    failed,         \* the command whose failure main caught, "" when none
    exitCode,       \* exit status of the process, -1 while it runs
    visited,        \* the orchestrator states entered so far, in order
    \* ---- bumpVersionString applied to one input ----
    vComps,         \* the dot-separated components the input was built from
    vCur,           \* cur
    vBump,          \* bump
    vResult,        \* what the call produced
    vDone,          \* the call has been made
    \* ---- insertChangelogEntry applied repeatedly ----
    iOrigLines,     \* the lines the original document was built from
    iDoc,           \* the document
    iEntries,       \* the entries inserted so far, oldest first
    iFailed         \* the last call threw

mainVars == <<pc, dryRun, apiKey, commits, response, advisorCalls, prompts,
              answer, bump, notes, finalBump, pkgVersion, newVersion,
              tempExists, tempCreated, tempContent, readme, readme0,
              readmeWrites, cmds, editorLaunches, failed, exitCode, visited>>
verVars == <<vComps, vCur, vBump, vResult, vDone>>
insVars == <<iOrigLines, iDoc, iEntries, iFailed>>
vars == <<mainVars, verVars, insVars>>

-----------------------------------------------------------------------------
(* Bounds of the model *)

\* most dot-separated components of a version string given to bumpVersionString
MaxComponents == 4
\* most lines of a document given to insertChangelogEntry
MaxDocLines == 3
\* most successive insertChangelogEntry calls
MaxInserts == 2
\* most characters of a raw git log output
MaxRawLen == 3

-----------------------------------------------------------------------------
(* JavaScript strings and numbers *)

\* the characters String.prototype.trim removes
WhiteSpace == {" ", "\t", "\n", "\r"}

Digits == <<"0", "1", "2", "3", "4", "5", "6", "7", "8", "9">>
Upper == <<"A", "B", "C", "D", "E", "F", "G", "H", "I", "J", "K", "L", "M",
           "N", "O", "P", "Q", "R", "S", "T", "U", "V", "W", "X", "Y", "Z">>
Lower == <<"a", "b", "c", "d", "e", "f", "g", "h", "i", "j", "k", "l", "m",
           "n", "o", "p", "q", "r", "s", "t", "u", "v", "w", "x", "y", "z">>

IsDigit(c) == \E i \in 1..10 : Digits[i] = c
DigitVal(c) == (CHOOSE i \in 1..10 : Digits[i] = c) - 1

LowerChar(c) ==
    IF \E i \in 1..26 : Upper[i] = c
    THEN Lower[CHOOSE i \in 1..26 : Upper[i] = c]
    ELSE c

\* String.prototype.toLowerCase
ToLowerCase(s) == [i \in 1..Len(s) |-> LowerChar(s[i])]

RECURSIVE TrimStart(_)
TrimStart(s) ==
    IF s # <<>> /\ Head(s) \in WhiteSpace THEN TrimStart(Tail(s)) ELSE s

RECURSIVE TrimEnd(_)
TrimEnd(s) ==
    IF s # <<>> /\ s[Len(s)] \in WhiteSpace
    THEN TrimEnd(SubSeq(s, 1, Len(s) - 1))
    ELSE s

\* String.prototype.trim
Trim(s) == TrimEnd(TrimStart(s))

\* String.prototype.split(sep) for a one-character separator
RECURSIVE Split(_, _)
Split(s, sep) ==
    IF \E i \in 1..Len(s) : s[i] = sep
    THEN LET k == CHOOSE i \in 1..Len(s) :
                      s[i] = sep /\ \A j \in 1..(i - 1) : s[j] # sep
         IN  <<SubSeq(s, 1, k - 1)>> \o Split(SubSeq(s, k + 1, Len(s)), sep)
    ELSE <<s>>

\* Array.prototype.join(sep)
RECURSIVE Join(_, _)
Join(parts, sep) ==
    IF parts = <<>> THEN <<>>
    ELSE IF Len(parts) = 1 THEN parts[1]
    ELSE parts[1] \o <<sep>> \o Join(Tail(parts), sep)

\* JavaScript values a version component can take
Num(n) == [t |-> "num", v |-> n]
NaN == [t |-> "nan", v |-> 0]
Undefined == [t |-> "undefined", v |-> 0]

RECURSIVE DigitPrefixValue(_, _)
DigitPrefixValue(s, acc) ==
    IF s # <<>> /\ IsDigit(Head(s))
    THEN DigitPrefixValue(Tail(s), 10 * acc + DigitVal(Head(s)))
    ELSE acc

\* parseInt(s, 10): leading white space skipped, an optional sign, then the
\* longest prefix of digits; NaN when there is no digit
ParseInt(s) ==
    LET t == TrimStart(s)
        neg == t # <<>> /\ Head(t) = "-"
        u == IF t # <<>> /\ Head(t) \in {"-", "+"} THEN Tail(t) ELSE t
    IN  IF u # <<>> /\ IsDigit(Head(u))
        THEN Num(IF neg THEN 0 - DigitPrefixValue(u, 0) ELSE DigitPrefixValue(u, 0))
        ELSE NaN

RECURSIVE NatToString(_)
NatToString(n) ==
    IF n < 10 THEN <<Digits[n + 1]>>
    ELSE NatToString(n \div 10) \o <<Digits[(n % 10) + 1]>>

\* the string a template literal gives for a value
NumberToString(x) ==
    IF x.t = "nan" THEN <<"N", "a", "N">>
    ELSE IF x.t = "undefined" THEN <<"u", "n", "d", "e", "f", "i", "n", "e", "d">>
    ELSE IF x.v < 0 THEN <<"-">> \o NatToString(0 - x.v)
    ELSE NatToString(x.v)

\* x + 1
PlusOne(x) == IF x.t = "num" THEN Num(x.v + 1) ELSE NaN

-----------------------------------------------------------------------------
(* bumpVersionString *)

BumpKinds == {"major", "minor", "patch"}

Threw == [ok |-> FALSE, val |-> <<>>]
Returned(s) == [ok |-> TRUE, val |-> s]

\* bumpVersionString without the reset of the lower components
bumpVersionStringNoReset(cur, b) ==
    LET parts == Split(cur, ".")
        nums == [i \in 1..Len(parts) |-> ParseInt(parts[i])]
        maj == IF Len(nums) >= 1 THEN nums[1] ELSE Undefined
        min == IF Len(nums) >= 2 THEN nums[2] ELSE Undefined
        pat == IF Len(nums) >= 3 THEN nums[3] ELSE Undefined
    IN  IF maj.t = "nan" \/ min.t = "nan" \/ pat.t = "nan" THEN Threw
        ELSE Returned(NumberToString(IF b = "major" THEN PlusOne(maj) ELSE maj)
                      \o <<".">>
                      \o NumberToString(IF b = "minor" THEN PlusOne(min) ELSE min)
                      \o <<".">>
                      \o NumberToString(IF b \notin {"major", "minor"}
                                        THEN PlusOne(pat) ELSE pat))

bumpVersionString(cur, b) ==
    LET parts == Split(cur, ".")
        nums == [i \in 1..Len(parts) |-> ParseInt(parts[i])]
        maj == IF Len(nums) >= 1 THEN nums[1] ELSE Undefined
        min == IF Len(nums) >= 2 THEN nums[2] ELSE Undefined
        pat == IF Len(nums) >= 3 THEN nums[3] ELSE Undefined
    IN  IF maj.t = "nan" \/ min.t = "nan" \/ pat.t = "nan" THEN Threw
        ELSE IF b = "major"
             THEN Returned(NumberToString(PlusOne(maj)) \o <<".", "0", ".", "0">>)
        ELSE IF b = "minor"
             THEN Returned(NumberToString(maj) \o <<".">> \o NumberToString(PlusOne(min))
                           \o <<".", "0">>)
        ELSE Returned(NumberToString(maj) \o <<".">> \o NumberToString(min) \o <<".">>
                      \o NumberToString(PlusOne(pat)))

-----------------------------------------------------------------------------
(* insertChangelogEntry *)

Changelog == <<"c", "h", "a", "n", "g", "e", "l", "o", "g">>

\* /^#\s*Changelog\s*$/i.test(l.trim())
IsChangelogHeading(l) ==
    LET t == Trim(l)
    IN  /\ t # <<>>
        /\ Head(t) = "#"
        /\ ToLowerCase(TrimEnd(TrimStart(Tail(t)))) = Changelog

\* the index after the heading at h and the blank lines that follow it
RECURSIVE SkipBlank(_, _)
SkipBlank(lines, insertAt) ==
    IF insertAt < Len(lines) /\ Trim(lines[insertAt + 1]) = <<>>
    THEN SkipBlank(lines, insertAt + 1)
    ELSE insertAt

\* insertChangelogEntry inserting right under the heading, the blank lines
\* not skipped
insertChangelogEntryNoSkip(readmeContent, newReadmeLines) ==
    LET lines == Split(readmeContent, "\n")
        found == \E i \in 1..Len(lines) : IsChangelogHeading(lines[i])
        changelogIdx == CHOOSE i \in 1..Len(lines) :
                            /\ IsChangelogHeading(lines[i])
                            /\ \A j \in 1..(i - 1) : ~IsChangelogHeading(lines[j])
    IN  IF ~found THEN Threw
        ELSE Returned(Join(SubSeq(lines, 1, changelogIdx) \o newReadmeLines
                           \o <<<<>>>>
                           \o SubSeq(lines, changelogIdx + 1, Len(lines)), "\n"))

\* insertAt counts the lines kept in front of the entry (the 0-based index
\* of the code)
insertChangelogEntry(readmeContent, newReadmeLines) ==
    LET lines == Split(readmeContent, "\n")
        found == \E i \in 1..Len(lines) : IsChangelogHeading(lines[i])
        changelogIdx == CHOOSE i \in 1..Len(lines) :
                            /\ IsChangelogHeading(lines[i])
                            /\ \A j \in 1..(i - 1) : ~IsChangelogHeading(lines[j])
        insertAt == SkipBlank(lines, changelogIdx)
    IN  IF ~found THEN Threw
        ELSE Returned(Join(SubSeq(lines, 1, insertAt) \o newReadmeLines \o <<<<>>>>
                           \o SubSeq(lines, insertAt + 1, Len(lines)), "\n"))

-----------------------------------------------------------------------------
(* parseCommits and askOpenAIForRelease *)

JsString(s) == [t |-> "string", v |-> s]
JsArray(a) == [t |-> "array", v |-> a]

\* !x
Falsy(x) == x.t = "undefined" \/ (x.t = "string" /\ x.v = "")

RECURSIVE SelectNonEmpty(_)
SelectNonEmpty(chunks) ==
    IF chunks = <<>> THEN <<>>
    ELSE IF Head(chunks) = <<>> THEN SelectNonEmpty(Tail(chunks))
    ELSE <<Head(chunks)>> \o SelectNonEmpty(Tail(chunks))

\* raw is the out field of safeRun's result: undefined when git log failed
parseCommits(raw) ==
    IF raw.t = "undefined" THEN <<>>
    ELSE IF raw.v = <<>> THEN <<>>
    ELSE LET split == Split(raw.v, "RS")
             chunks == SelectNonEmpty([i \in 1..Len(split) |-> Trim(split[i])])
         IN  [i \in 1..Len(chunks) |->
                LET f == Split(chunks[i], "US")
                IN  [hash |-> f[1],
                     subject |-> IF Len(f) >= 2 THEN f[2] ELSE <<>>,
                     body |-> IF Len(f) >= 3 THEN f[3] ELSE <<>>]]

\* res is the advisor's answer: the HTTP status, whether the content parses
\* as a JSON object, and the three fields of that object
askOpenAIForRelease(res) ==
    IF ~res.http THEN Threw
    ELSE IF ~res.json THEN Threw
    ELSE IF Falsy(res.bump) \/ ~(res.bump.t = "string" /\ res.bump.v \in BumpKinds)
         THEN Threw
    ELSE IF Falsy(res.reasoning) THEN Threw
    ELSE IF Falsy(res.notes) \/ res.notes.t # "array" THEN Threw
    ELSE Returned([bump |-> res.bump.v,
                   reasoning |-> res.reasoning.v,
                   notes |-> [i \in 1..Len(res.notes.v) |->
                                <<"-", " ">> \o res.notes.v[i]]])

-----------------------------------------------------------------------------
(* main: the inputs the environment supplies *)

LHeading == <<"#", " ", "C", "h", "a", "n", "g", "e", "l", "o", "g">>
LOldEntry == <<"#", "#", " ", "1", ".", "0", ".", "1">>
LOldNote == <<"-", " ", "F", "i", "x">>
LUsage == <<"#", " ", "U", "s", "a", "g", "e">>

\* README.md as the run finds it: with and without the "# Changelog" section
Readmes ==
    { Join(<<LUsage, <<>>, LHeading, <<>>, LOldEntry, <<>>, LOldNote, <<>>>>, "\n"),
      Join(<<LUsage, <<>>, LOldEntry, <<>>>>, "\n") }

\* pkg.version as the run finds it
PkgVersions == { <<"1", ".", "0", ".", "1">>, <<"0", ".", "9", ".", "x">> }

RawChars == {"a", "US", "RS", "\n"}

RawOutputs ==
    {Undefined} \cup
    { JsString(r) : r \in UNION { [1..n -> RawChars] : n \in 0..MaxRawLen } }

Note1 == <<"A", "d", "d">>

Responses ==
    [ http : BOOLEAN,
      json : BOOLEAN,
      bump : {Undefined, JsString("huge"), JsString("minor"), JsString("patch")},
      reasoning : {Undefined, JsString(""), JsString("because")},
      notes : {Undefined, JsString("Add"), JsArray(<<>>), JsArray(<<Note1>>)} ]

\* what the user may type at the prompt
Answers ==
    { <<>>,
      <<"y">>,
      <<" ", "Y", "e", "s", " ">>,
      <<"n">>,
      <<"N", "O", "\t">>,
      <<"M", "a", "j", "o", "r">>,
      <<" ", "m", "i", "n", "o", "r">>,
      <<"p", "a", "t", "c", "h">>,
      <<"n", "o", "p", "e">>,
      <<"m", "a", "y", "b", "e">> }

BumpWord(k) ==
    CASE k = "major" -> <<"m", "a", "j", "o", "r">>
      [] k = "minor" -> <<"m", "i", "n", "o", "r">>
      [] k = "patch" -> <<"p", "a", "t", "c", "h">>

\* what the editor session leaves in the temporary file when it is saved
EditedContents(content) == { content, <<" ", "\n">> }

Cmd(c, a) == [cmd |-> c, arg |-> a]

-----------------------------------------------------------------------------
(* main *)

MainInit ==
    /\ pc = "Start"
    /\ dryRun \in BOOLEAN
    /\ apiKey \in BOOLEAN
    /\ pkgVersion \in PkgVersions
    /\ readme \in Readmes
    /\ readme0 = readme
    /\ commits = <<>>
    /\ response = [http |-> FALSE, json |-> FALSE, bump |-> Undefined,
                   reasoning |-> Undefined, notes |-> Undefined]
    /\ advisorCalls = 0
    /\ prompts = 0
    /\ answer = <<>>
    /\ bump = ""
    /\ notes = <<>>
    /\ finalBump = ""
    /\ newVersion = <<>>
    /\ tempExists = FALSE
    /\ tempCreated = FALSE
    /\ tempContent = <<>>
    /\ readmeWrites = 0
    /\ cmds = <<>>
    /\ editorLaunches = 0
    /\ failed = ""
    /\ exitCode = -1
    /\ visited = <<>>

\* process.exit(code), or main returning (code 0)
Exit(code) ==
    /\ pc' = "Exited"
    /\ exitCode' = code

Enter(state) ==
    /\ pc' = state
    /\ visited' = Append(visited, state)
    /\ exitCode' = exitCode

\* lines 189-205: parseArgs and the check of OPENAI_API_KEY
Startup ==
    /\ pc = "Start"
    /\ IF ~apiKey
       THEN Exit(1) /\ visited' = visited
       ELSE Enter("CollectCommits")
    /\ UNCHANGED <<dryRun, apiKey, commits, response, advisorCalls, prompts,
                   answer, bump, notes, finalBump, pkgVersion, newVersion,
                   tempExists, tempCreated, tempContent, readme, readme0,
                   readmeWrites, cmds, editorLaunches, failed>>

\* the check written as !commits: an empty array is truthy
NoCommitsTruthiness(c) == FALSE

\* !commits.length
NoCommits(c) == Len(c) = 0

\* lines 207-224: the three git commands (safeRun swallows their failures),
\* parseCommits and the check for an empty history
CollectCommits ==
    /\ pc = "CollectCommits"
    /\ \E raw \in RawOutputs :
         /\ commits' = parseCommits(raw)
         /\ IF NoCommits(parseCommits(raw))
            THEN Exit(1) /\ visited' = visited
            ELSE Enter("ObtainAdvice")
    /\ cmds' = cmds \o <<Cmd("git fetch", ""), Cmd("git describe", ""),
                         Cmd("git log", "")>>
    /\ UNCHANGED <<dryRun, apiKey, response, advisorCalls, prompts,
                   answer, bump, notes, finalBump, pkgVersion, newVersion,
                   tempExists, tempCreated, tempContent, readme, readme0,
                   readmeWrites, editorLaunches, failed>>

\* lines 226-233: the request to the advisor and the validation of its answer
ObtainAdvice ==
    /\ pc = "ObtainAdvice"
    /\ advisorCalls' = advisorCalls + 1
    /\ \E res \in Responses :
         /\ response' = res
         /\ LET result == askOpenAIForRelease(res)
            IN  IF result.ok
                THEN /\ bump' = result.val.bump
                     /\ notes' = result.val.notes
                     /\ failed' = failed
                     /\ Enter("ConfirmBump")
                ELSE /\ failed' = "askOpenAIForRelease"
                     /\ Exit(1)
                     /\ UNCHANGED <<bump, notes, visited>>
    /\ UNCHANGED <<dryRun, apiKey, commits, prompts,
                   answer, finalBump, pkgVersion, newVersion,
                   tempExists, tempCreated, tempContent, readme, readme0,
                   readmeWrites, cmds, editorLaunches>>

\* the choice with the answer compared as typed, neither trimmed nor
\* lower-cased
ChooseBumpAsTyped(ans, suggested) ==
    IF \E k \in BumpKinds : ans = BumpWord(k)
    THEN [abort |-> FALSE, bump |-> CHOOSE k \in BumpKinds : ans = BumpWord(k)]
    ELSE IF ans = <<"n">> \/ ans = <<"n", "o">>
    THEN [abort |-> TRUE, bump |-> suggested]
    ELSE [abort |-> FALSE, bump |-> suggested]

\* lines 234-244: what the answer decides: finalBump, and whether the run
\* is aborted
ChooseBump(ans, suggested) ==
    LET confirm == ToLowerCase(Trim(ans))
    IN  IF \E k \in BumpKinds : confirm = BumpWord(k)
        THEN [abort |-> FALSE, bump |-> CHOOSE k \in BumpKinds : confirm = BumpWord(k)]
        ELSE IF confirm = <<"n">> \/ confirm = <<"n", "o">>
        THEN [abort |-> TRUE, bump |-> suggested]
        ELSE [abort |-> FALSE, bump |-> suggested]

\* lines 234-244: the prompt and the choice of finalBump
ConfirmBump ==
    /\ pc = "ConfirmBump"
    /\ prompts' = prompts + 1
    /\ \E ans \in Answers :
         /\ answer' = ans
         /\ finalBump' = ChooseBump(ans, bump).bump
         /\ IF ChooseBump(ans, bump).abort
            THEN Exit(1) /\ visited' = visited
            ELSE Enter("ComposeEntry")
    /\ UNCHANGED <<dryRun, apiKey, commits, response, advisorCalls,
                   bump, notes, pkgVersion, newVersion,
                   tempExists, tempCreated, tempContent, readme, readme0,
                   readmeWrites, cmds, editorLaunches, failed>>

\* lines 246-259: the new version and the temporary file with the entry
ComposeEntry ==
    /\ pc = "ComposeEntry"
    /\ LET v == bumpVersionString(pkgVersion, finalBump)
       IN  IF v.ok
           THEN /\ newVersion' = v.val
                /\ tempContent' = Join(<<<<"#", "#", " ">> \o v.val, <<>>>>
                                       \o notes \o <<<<>>>>, "\n")
                /\ tempExists' = TRUE
                /\ tempCreated' = TRUE
                /\ failed' = failed
                /\ Enter("EditEntry")
           ELSE /\ failed' = "bumpVersionString"
                /\ Exit(1)
                /\ UNCHANGED <<newVersion, tempContent, tempExists, tempCreated,
                               visited>>
    /\ UNCHANGED <<dryRun, apiKey, commits, response, advisorCalls, prompts,
                   answer, bump, notes, finalBump, pkgVersion, readme, readme0,
                   readmeWrites, cmds, editorLaunches>>

\* EditEntry with the dry-run return missing: the run goes on to persist
EditEntryIgnoresDryRun ==
    /\ pc = "EditEntry"
    /\ editorLaunches' = editorLaunches + 1
    /\ cmds' = Append(cmds, Cmd("editor", ""))
    /\ \/ /\ tempExists' = FALSE
          /\ tempContent' = tempContent
          /\ Exit(1)
          /\ visited' = visited
       \/ \E edited \in EditedContents(tempContent) :
            /\ tempContent' = edited
            /\ tempExists' = TRUE
            /\ pc' = "Persist"
            /\ visited' = Append(visited, IF dryRun THEN "PreviewOnly" ELSE "Persist")
            /\ exitCode' = exitCode
    /\ UNCHANGED <<dryRun, apiKey, commits, response, advisorCalls, prompts,
                   answer, bump, notes, finalBump, pkgVersion, newVersion,
                   tempCreated, readme, readme0, readmeWrites, failed>>

\* EditEntry with the editor skipped in a dry run
EditEntrySkipsEditorInDryRun ==
    /\ pc = "EditEntry"
    /\ IF dryRun
       THEN /\ tempExists' = FALSE
            /\ Exit(0)
            /\ visited' = Append(visited, "PreviewOnly")
            /\ UNCHANGED <<editorLaunches, cmds, tempContent>>
       ELSE /\ editorLaunches' = editorLaunches + 1
            /\ cmds' = Append(cmds, Cmd("editor", ""))
            /\ \/ /\ tempExists' = FALSE
                  /\ tempContent' = tempContent
                  /\ Exit(1)
                  /\ visited' = visited
               \/ \E edited \in EditedContents(tempContent) :
                    /\ tempContent' = edited
                    /\ tempExists' = TRUE
                    /\ Enter("Persist")
    /\ UNCHANGED <<dryRun, apiKey, commits, response, advisorCalls, prompts,
                   answer, bump, notes, finalBump, pkgVersion, newVersion,
                   tempCreated, readme, readme0, readmeWrites, failed>>

\* lines 268-300: the editor session, the check that the file is still
\* there, and the dry-run report
EditEntry ==
    /\ pc = "EditEntry"
    /\ editorLaunches' = editorLaunches + 1
    /\ cmds' = Append(cmds, Cmd("editor", ""))
    /\ \/ \* the editor command fails: unlink and exit
          /\ tempExists' = FALSE
          /\ tempContent' = tempContent
          /\ Exit(1)
          /\ visited' = visited
       \/ \* the file is gone when the editor returns
          /\ tempExists' = FALSE
          /\ tempContent' = tempContent
          /\ Exit(1)
          /\ visited' = visited
       \/ \* the file was saved
          \E edited \in EditedContents(tempContent) :
            /\ tempContent' = edited
            /\ IF dryRun
               THEN /\ tempExists' = FALSE
                    /\ Exit(0)
                    /\ visited' = Append(visited, "PreviewOnly")
               ELSE /\ tempExists' = TRUE
                    /\ Enter("Persist")
    /\ UNCHANGED <<dryRun, apiKey, commits, response, advisorCalls, prompts,
                   answer, bump, notes, finalBump, pkgVersion, newVersion,
                   tempCreated, readme, readme0, readmeWrites, failed>>

\* lines 302-310: the edited entry goes into README.md, the temporary file
\* is removed
InsertEntry ==
    /\ pc = "Persist"
    /\ \E io \in {"ok", "read fails", "write fails"} :
         LET updatedReadme ==
                 insertChangelogEntry(readme, Split(Trim(tempContent), "\n"))
         IN  IF io = "read fails"
             THEN /\ failed' = "readFileSync"
                  /\ Exit(1)
                  /\ UNCHANGED <<readme, readmeWrites, tempExists>>
             ELSE IF ~updatedReadme.ok
             THEN /\ failed' = "insertChangelogEntry"
                  /\ Exit(1)
                  /\ UNCHANGED <<readme, readmeWrites, tempExists>>
             ELSE IF io = "write fails"
             THEN /\ failed' = "writeFileSync"
                  /\ Exit(1)
                  /\ UNCHANGED <<readme, readmeWrites, tempExists>>
             ELSE /\ readme' = updatedReadme.val
                  /\ readmeWrites' = readmeWrites + 1
                  /\ tempExists' = FALSE
                  /\ failed' = failed
                  /\ pc' = "GitAdd"
                  /\ exitCode' = exitCode
    /\ UNCHANGED <<dryRun, apiKey, commits, response, advisorCalls, prompts,
                   answer, bump, notes, finalBump, pkgVersion, newVersion,
                   tempCreated, tempContent, readme0, cmds, editorLaunches,
                   visited>>

\* RunStep with the command run through safeRun: a failure is swallowed
\* and main goes on
RunStepSwallowsFailure(at, c, a, next) ==
    /\ pc = at
    /\ cmds' = Append(cmds, Cmd(c, a))
    /\ \E ok \in BOOLEAN :
         /\ failed' = (IF ok THEN failed ELSE c)
         /\ IF next = "Exited"
            THEN Exit(0)
            ELSE pc' = next /\ exitCode' = exitCode
    /\ UNCHANGED <<dryRun, apiKey, commits, response, advisorCalls, prompts,
                   answer, bump, notes, finalBump, pkgVersion, newVersion,
                   tempExists, tempCreated, tempContent, readme, readme0,
                   readmeWrites, editorLaunches, visited>>

\* run(cmd) at position `at`: the command is executed; when it fails the
\* catch of main exits with 1, otherwise main goes on to `next`
RunStep(at, c, a, next) ==
    /\ pc = at
    /\ cmds' = Append(cmds, Cmd(c, a))
    /\ \E ok \in BOOLEAN :
         IF ok
         THEN /\ failed' = failed
              /\ IF next = "Exited"
                 THEN Exit(0)
                 ELSE pc' = next /\ exitCode' = exitCode
         ELSE /\ failed' = c
              /\ Exit(1)
    /\ UNCHANGED <<dryRun, apiKey, commits, response, advisorCalls, prompts,
                   answer, bump, notes, finalBump, pkgVersion, newVersion,
                   tempExists, tempCreated, tempContent, readme, readme0,
                   readmeWrites, editorLaunches, visited>>

\* line 312
GitAdd == RunStep("GitAdd", "git add", "", "GitCommit")
\* line 313
GitCommit == RunStep("GitCommit", "git commit", "", "NpmVersion")
\* line 316
NpmVersion == RunStep("NpmVersion", "npm version", finalBump, "GitPush")
\* lines 319-321
GitPush == RunStep("GitPush", "git push", "", "Exited")

VerIdle ==
    /\ vComps = <<>>
    /\ vCur = <<>>
    /\ vBump = "patch"
    /\ vResult = Threw
    /\ vDone = FALSE

InsIdle ==
    /\ iOrigLines = <<>>
    /\ iDoc = <<>>
    /\ iEntries = <<>>
    /\ iFailed = FALSE

Init == MainInit /\ VerIdle /\ InsIdle

Next ==
    \/ Startup /\ UNCHANGED <<verVars, insVars>>
    \/ CollectCommits /\ UNCHANGED <<verVars, insVars>>
    \/ ObtainAdvice /\ UNCHANGED <<verVars, insVars>>
    \/ ConfirmBump /\ UNCHANGED <<verVars, insVars>>
    \/ ComposeEntry /\ UNCHANGED <<verVars, insVars>>
    \/ EditEntry /\ UNCHANGED <<verVars, insVars>>
    \/ InsertEntry /\ UNCHANGED <<verVars, insVars>>
    \/ GitAdd /\ UNCHANGED <<verVars, insVars>>
    \/ GitCommit /\ UNCHANGED <<verVars, insVars>>
    \/ NpmVersion /\ UNCHANGED <<verVars, insVars>>
    \/ GitPush /\ UNCHANGED <<verVars, insVars>>

Spec == Init /\ [][Next]_vars

-----------------------------------------------------------------------------
(* bumpVersionString as a function of its input *)

\* the components version strings are built from
Components ==
    { <<"0">>, <<"1">>, <<"9">>, <<"1", "0">>, <<"x">>, <<>>,
      <<"3", "-", "b", "e", "t", "a">>, <<"-", "1">> }

ComponentLists == UNION { [1..n -> Components] : n \in 1..MaxComponents }

VerInit ==
    /\ vComps \in ComponentLists
    /\ vCur = Join(vComps, ".")
    /\ vBump \in BumpKinds
    /\ vResult = Threw
    /\ vDone = FALSE

MainIdle ==
    /\ pc = "Exited"
    /\ dryRun = FALSE
    /\ apiKey = FALSE
    /\ pkgVersion = <<>>
    /\ readme = <<>>
    /\ readme0 = <<>>
    /\ commits = <<>>
    /\ response = [http |-> FALSE, json |-> FALSE, bump |-> Undefined,
                   reasoning |-> Undefined, notes |-> Undefined]
    /\ advisorCalls = 0
    /\ prompts = 0
    /\ answer = <<>>
    /\ bump = ""
    /\ notes = <<>>
    /\ finalBump = ""
    /\ newVersion = <<>>
    /\ tempExists = FALSE
    /\ tempCreated = FALSE
    /\ tempContent = <<>>
    /\ readmeWrites = 0
    /\ cmds = <<>>
    /\ editorLaunches = 0
    /\ failed = ""
    /\ exitCode = -1
    /\ visited = <<>>

\* one call bumpVersionString(vCur, vBump)
CallBumpVersionString ==
    /\ ~vDone
    /\ vResult' = bumpVersionString(vCur, vBump)
    /\ vDone' = TRUE
    /\ UNCHANGED <<vComps, vCur, vBump>>

InitVersion == MainIdle /\ VerInit /\ InsIdle

NextVersion == CallBumpVersionString /\ UNCHANGED <<mainVars, insVars>>

SpecVersion == InitVersion /\ [][NextVersion]_vars

-----------------------------------------------------------------------------
(* insertChangelogEntry applied to a document again and again *)

LHeadingLoose == <<" ", "#", "C", "H", "A", "N", "G", "E", "L", "O", "G", "\r">>
LSubHeading == <<"#", "#", " ", "C", "h", "a", "n", "g", "e", "l", "o", "g">>
LBlank == <<" ">>
LNew == <<"#", "#", " ", "2">>
LNewNote == <<"-", " ", "A">>

\* the lines documents are built from
DocLines == { LHeading, LHeadingLoose, LSubHeading, LOldEntry, <<>>, LBlank }

Documents == UNION { [1..n -> DocLines] : n \in 1..MaxDocLines }

\* the entries handed to insertChangelogEntry
Entries ==
    { <<LNew>>, <<LNew, LNewNote>>, <<LNewNote, <<>>>>, <<<<>>>>, <<<<>>, LNew>> }

InsInit ==
    /\ iOrigLines \in Documents
    /\ iDoc = Join(iOrigLines, "\n")
    /\ iEntries = <<>>
    /\ iFailed = FALSE

\* one call insertChangelogEntry(iDoc, entry); the result replaces the
\* document, a throw leaves it as it was
CallInsertChangelogEntry ==
    /\ ~iFailed
    /\ Len(iEntries) < MaxInserts
    /\ \E entry \in Entries :
         LET r == insertChangelogEntry(iDoc, entry)
         IN  IF r.ok
             THEN /\ iDoc' = r.val
                  /\ iEntries' = Append(iEntries, entry)
                  /\ iFailed' = FALSE
             ELSE /\ iFailed' = TRUE
                  /\ UNCHANGED <<iDoc, iEntries>>
    /\ UNCHANGED iOrigLines

InitInsert == MainIdle /\ VerIdle /\ InsInit

NextInsert == CallInsertChangelogEntry /\ UNCHANGED <<mainVars, verVars>>

SpecInsert == InitInsert /\ [][NextInsert]_vars

-----------------------------------------------------------------------------
(* Properties of main *)

Terminated == pc = "Exited"

PersistCmdNames == <<"git add", "git commit", "npm version", "git push">>

IsPersistCmd(c) == \E i \in 1..Len(PersistCmdNames) : PersistCmdNames[i] = c.cmd

\* the persistence commands executed so far, in order
PersistCmds == SelectSeq(cmds, IsPersistCmd)

NothingPersisted ==
    /\ readme = readme0
    /\ readmeWrites = 0
    /\ PersistCmds = <<>>

\* C1: once main has created the temporary entry file, the file no longer
\* exists when the process has terminated, whatever the exit path.
C1_TempFileGoneAtExit == (Terminated /\ tempCreated) => ~tempExists

\* C2: in a run started with --dry-run README.md is never written and none
\* of git add, git commit, npm version, git push is ever executed.
C2_DryRunMutatesNothing == dryRun => NothingPersisted

C2_Witness ==
    /\ dryRun
    /\ Terminated
    /\ exitCode = 0
    /\ editorLaunches = 1
    /\ answer = <<"p", "a", "t", "c", "h">>

\* C3: the persistence steps run in the order write README.md, git add,
\* git commit, npm version, git push, each only after the one before it
\* succeeded; a failing step is the last one executed, the run then ends
\* with exit code 1, and README.md keeps the inserted entry.
C3_PersistChain ==
    LET n == Len(PersistCmds)
    IN  /\ n <= Len(PersistCmdNames)
        /\ \A i \in 1..n : PersistCmds[i].cmd = PersistCmdNames[i]
        /\ n > 0 => readmeWrites = 1
        /\ readmeWrites = 1 =>
             /\ readme # readme0
             /\ readme = insertChangelogEntry(readme0,
                             Split(Trim(tempContent), "\n")).val
        /\ failed \in {"readFileSync", "insertChangelogEntry", "writeFileSync"} =>
             /\ NothingPersisted
             /\ Terminated /\ exitCode = 1
        /\ (\E i \in 1..Len(PersistCmdNames) : PersistCmdNames[i] = failed) =>
             /\ n > 0
             /\ PersistCmds[n].cmd = failed
             /\ Terminated /\ exitCode = 1
        /\ (failed = "" /\ n > 0) =>
             pc = (IF n = 4 THEN "Exited"
                   ELSE <<"GitCommit", "NpmVersion", "GitPush">>[n])
        /\ (Terminated /\ exitCode = 0 /\ ~dryRun) => (n = 4 /\ failed = "")

C3_Witness ==
    /\ failed = "npm version"
    /\ Terminated
    /\ exitCode = 1
    /\ readme # readme0
    /\ Len(PersistCmds) = 3

StateOrder == <<"CollectCommits", "ObtainAdvice", "ConfirmBump",
                "ComposeEntry", "EditEntry">>

\* the orchestrator states were entered in the fixed order, none twice
InOrder ==
    /\ Len(visited) <= Len(StateOrder) + 1
    /\ \A i \in 1..Len(visited) :
         IF i <= Len(StateOrder)
         THEN visited[i] = StateOrder[i]
         ELSE visited[i] = (IF dryRun THEN "PreviewOnly" ELSE "Persist")

\* C4 as stated: the states occur in the fixed order, none revisited, and
\* in a --dry-run run the editor is never launched.
C4_EditorSkippedInDryRun ==
    /\ InOrder
    /\ dryRun => editorLaunches = 0

\* C4 amended: the states occur in the fixed order, none revisited, and
\* EditEntry is not skipped in preview mode: a run reaches PreviewOnly or
\* Persist only after the editor has been launched, exactly once.
C4_EditorRunsInBothModes ==
    /\ InOrder
    /\ editorLaunches <= 1
    /\ editorLaunches = 1 <=> Len(visited) >= Len(StateOrder) /\ pc # "EditEntry"
    /\ Len(visited) > Len(StateOrder) => editorLaunches = 1

C4_Witness ==
    /\ dryRun
    /\ visited = StateOrder \o <<"PreviewOnly">>
    /\ editorLaunches = 1
    /\ exitCode = 0

\* the advisor's answer has the three fields the data model requires
ValidAdvice(res) ==
    /\ res.http
    /\ res.json
    /\ res.bump \in {JsString(k) : k \in BumpKinds}
    /\ res.reasoning.t = "string" /\ res.reasoning # JsString("")
    /\ res.notes.t = "array" /\ res.notes # JsArray(<<>>)

\* C5: an advisor response is accepted only with a bump in {major, minor,
\* patch}, a non-empty reasoning and a non-empty notes collection; with any
\* other response the run ends with exit code 1 before the prompt, without
\* the temporary file and with nothing persisted.
C5_AdviceValidated ==
    advisorCalls = 1 =>
        IF ValidAdvice(response)
        THEN Len(visited) >= 3
        ELSE /\ Terminated /\ exitCode = 1
             /\ prompts = 0
             /\ ~tempCreated
             /\ NothingPersisted

Confirm == ToLowerCase(Trim(answer))

\* the bump kind C6 gives for the answer typed
ExpectedBump ==
    IF Confirm = <<"m", "a", "j", "o", "r">> THEN "major"
    ELSE IF Confirm = <<"m", "i", "n", "o", "r">> THEN "minor"
    ELSE IF Confirm = <<"p", "a", "t", "c", "h">> THEN "patch"
    ELSE bump

\* C6: after the prompt, "n" and "no" end the run with exit code 1 with no
\* temporary file and nothing persisted; a bump kind replaces the
\* suggestion; every other answer keeps it; the resulting kind gives the
\* version of the entry heading and is the argument of npm version.
C6_ConfirmBump ==
    prompts = 1 =>
        IF Confirm \in {<<"n">>, <<"n", "o">>}
        THEN /\ Terminated /\ exitCode = 1
             /\ ~tempCreated
             /\ editorLaunches = 0
             /\ NothingPersisted
        ELSE /\ finalBump = ExpectedBump
             /\ Len(visited) >= 4
             /\ tempCreated =>
                  newVersion = bumpVersionString(pkgVersion, ExpectedBump).val
             /\ pc = "EditEntry" =>
                  Split(tempContent, "\n")[1] = <<"#", "#", " ">> \o newVersion
             /\ \A i \in 1..Len(cmds) :
                  cmds[i].cmd = "npm version" => cmds[i].arg = ExpectedBump

C6_Witness ==
    /\ answer = <<"M", "a", "j", "o", "r">>
    /\ bump = "minor"
    /\ newVersion = <<"2", ".", "0", ".", "0">>
    /\ \E i \in 1..Len(cmds) : cmds[i] = Cmd("npm version", "major")

\* C7: when parseCommits yields no records the run ends with exit code 1
\* before the advisor is contacted; no prompt, temporary file, README.md
\* write, commit, version bump or push happens.
C7_EmptyHistoryAborts ==
    (cmds # <<>> /\ commits = <<>>) =>
        /\ Terminated /\ exitCode = 1
        /\ advisorCalls = 0
        /\ prompts = 0
        /\ ~tempCreated
        /\ editorLaunches = 0
        /\ NothingPersisted

C7_Witness ==
    /\ cmds # <<>>
    /\ commits = <<>>
    /\ Terminated
    /\ exitCode = 1
    /\ apiKey

-----------------------------------------------------------------------------
(* Properties of bumpVersionString *)

\* the components that are non-negative integers, with their values
NumericComponents == { <<"0">>, <<"1">>, <<"9">>, <<"1", "0">> }

ValueOf(c) ==
    CASE c = <<"0">> -> 0
      [] c = <<"1">> -> 1
      [] c = <<"9">> -> 9
      [] c = <<"1", "0">> -> 10

\* exactly three dot-separated non-negative integers
ValidVersion(comps) ==
    /\ Len(comps) = 3
    /\ \A i \in 1..3 : comps[i] \in NumericComponents

Dotted(x, y, z) ==
    NatToString(x) \o <<".">> \o NatToString(y) \o <<".">> \o NatToString(z)

\* C8: bumpVersionString fails for every version string that is not
\* exactly three dot-separated non-negative integers.
C8_InvalidVersionRejected ==
    (vDone /\ ~ValidVersion(vComps)) => ~vResult.ok

\* C9: for "X.Y.Z" the result is (X+1).0.0 for major, X.(Y+1).0 for minor
\* and X.Y.(Z+1) for patch, with no carry.
C9_NextVersion ==
    (vDone /\ ValidVersion(vComps)) =>
        LET x == ValueOf(vComps[1])
            y == ValueOf(vComps[2])
            z == ValueOf(vComps[3])
        IN  /\ vResult.ok
            /\ vBump = "major" => vResult.val = Dotted(x + 1, 0, 0)
            /\ vBump = "minor" => vResult.val = Dotted(x, y + 1, 0)
            /\ vBump = "patch" => vResult.val = Dotted(x, y, z + 1)

C9_Witness ==
    /\ vDone
    /\ vCur = <<"0", ".", "0", ".", "9">>
    /\ vBump = "patch"
    /\ vResult = Returned(<<"0", ".", "0", ".", "1", "0">>)

-----------------------------------------------------------------------------
(* Properties of insertChangelogEntry *)

\* the lines of DocLines that trim to a single-# Changelog heading, and
\* those that are blank
HeadingDocLines == { LHeading, LHeadingLoose }
BlankDocLines == { <<>>, LBlank }

HasHeading == \E i \in 1..Len(iOrigLines) : iOrigLines[i] \in HeadingDocLines

FirstHeading ==
    CHOOSE i \in 1..Len(iOrigLines) :
        /\ iOrigLines[i] \in HeadingDocLines
        /\ \A j \in 1..(i - 1) : iOrigLines[j] \notin HeadingDocLines

\* the last line of the heading and the blank lines right under it
RegionStart ==
    CHOOSE k \in FirstHeading..Len(iOrigLines) :
        /\ \A j \in (FirstHeading + 1)..k : iOrigLines[j] \in BlankDocLines
        /\ k < Len(iOrigLines) => iOrigLines[k + 1] \notin BlankDocLines

\* the entries newest first, each followed by one blank line
RECURSIVE NewestFirst(_)
NewestFirst(entries) ==
    IF entries = <<>> THEN <<>>
    ELSE entries[Len(entries)] \o <<<<>>>>
         \o NewestFirst(SubSeq(entries, 1, Len(entries) - 1))

Layout ==
    iDoc = Join(SubSeq(iOrigLines, 1, RegionStart) \o NewestFirst(iEntries)
                \o SubSeq(iOrigLines, RegionStart + 1, Len(iOrigLines)), "\n")

NeverInserted ==
    /\ iEntries = <<>>
    /\ iDoc = Join(iOrigLines, "\n")

\* C10 as stated: for any sequence of calls the entries lie adjacent under
\* the first heading and its blank lines, newest first, each followed by
\* one blank line, the rest of the document unchanged; without a heading
\* the call fails.
C10_EntriesNewestFirst ==
    IF HasHeading
    THEN ~iFailed /\ Layout
    ELSE NeverInserted

\* C10 amended: the same, provided every entry that is followed by a later
\* insertion starts with a non-blank line.
C10_EntriesNewestFirstNonBlank ==
    IF HasHeading
    THEN /\ ~iFailed
         /\ (\A i \in 1..(Len(iEntries) - 1) : iEntries[i][1] \notin BlankDocLines)
              => Layout
    ELSE NeverInserted

C10_Witness ==
    /\ iOrigLines = <<LHeading, <<>>, LOldEntry>>
    /\ iEntries = <<<<LNew>>, <<LNew, LNewNote>>>>
    /\ iDoc = Join(<<LHeading, <<>>, LNew, LNewNote, <<>>, LNew, <<>>, LOldEntry>>,
                   "\n")

====
